---- MODULE Spec2Model ----
(***************************************************************************)
(* A model of src/main.py: the periodic feed-ingestion job.                *)
(* main() checks the configuration, obtains an access token, loads the     *)
(* dedup index from the remote table (fetch_existing_records), walks the   *)
(* configured feeds (parse_feeds) and writes the new records back in       *)
(* chunks (batch_create_records).                                          *)
(*                                                                         *)
(* Links are numbers: 0 is the empty string "", 1, 2, ... are URLs.        *)
(* A text is [src, len]: the text of a given origin cut to len characters; *)
(* two prefixes of the same origin are equal iff their lengths are.        *)
(***************************************************************************)
EXTENDS Integers, Sequences, FiniteSets, TLC

VARIABLES
    env,            \* names of the environment variables that are set (lines 15-21)
    model,          \* the Gemini model handle is not None (lines 27-35)
    pc,             \* position in main(): "main","auth","index","parse","batch","done","abort"
    token,          \* main's token is bound
    store,          \* the remote table: the Link field of each of its records
    web,            \* what the remote ends can answer with: [docs, pages, stable, endless]
    page_token,     \* fetch_existing_records: page_token (0 is None)
    existing_links, \* the dedup set
    feeds,          \* main: the list of feed urls after splitting RSS_FEEDS
    feed_i,         \* parse_feeds: index of the feed of the outer loop
    phase,          \* parse_feeds: "fetch" (top of the outer loop) or "entries"
    feed,           \* parse_feeds: the entries of the document parsed last
    entries,        \* parse_feeds: feed.entries[:5] of the current feed
    entry_i,        \* parse_feeds: index of the entry of the inner loop
    new_records,    \* parse_feeds: new_records / batch_create_records: records
    batch_i,        \* batch_create_records: i of range(0, len(records), batch_size)
    run,            \* number of the run of main() (1 or 2)
    \* ---- history (observations of the run, never read by the program) ----
    calls,          \* kinds of network requests issued in this run
    sink,           \* messages handed to send_feishu_notification
    posts,          \* messages actually POSTed to the webhook
    listLog,        \* fetch_existing_records: one entry per page request
    loadErr,        \* fetch_existing_records left its loop through an error
    idx0,           \* the dedup set when parse_feeds was called
    idxFeed,        \* the dedup set when the current feed's entries loop began
    feedDoc,        \* the document each feed served when last fetched
    feedStatus,     \* per feed: "pending","ok","fetchfail","itemfail"
    lastItem,       \* what happened to the entry processed last
    submissions,    \* batch_create_records: one entry per submission call
    faults,         \* number of failures the environment injected in this run
    prev            \* the first run, for the second: were its writes all accepted,
                    \* and which feeds it fetched

vars == <<env, model, pc, token, store, web, page_token, existing_links, feeds,
          feed_i, phase, feed, entries, entry_i, new_records, batch_i, run, calls, sink,
          posts, listLog, loadErr, idx0, idxFeed, feedDoc, feedStatus, lastItem,
          submissions, faults, prev>>

----------------------------------------------------------------------------
(* Bounds of the model *)
MaxFeeds == 2        \* feed urls in RSS_FEEDS
MaxEntries == 1      \* entries of a short feed document
MaxStableEntries == 2 \* entries of a feed document that is served to both runs
MaxFaults == 1       \* failures injected by the environment in one run
MaxBatchInput == 201 \* records handed to batch_create_records on its own
MaxTable == 201      \* records of the table when the index loader runs on its own
MaxLog == 4          \* page requests that listLog keeps (the loop itself is not bounded)

(* Constants of the program *)
EntryCap == 5        \* feed.entries[:5]
batch_size == 100
page_size == 100
ScrapeBelow == 100   \* len(content_text) < 100
RichAbove == 50      \* len(content_text) > 50
DocMinLen == 10      \* len(content) < 10
SummaryCap == 100    \* content_text[:100]
BodyBelow == 50      \* len(text) < 50 in fetch_wechat_content
EmptyLink == 0       \* the "" default of entry.get("link", "")

Min(a, b) == IF a < b THEN a ELSE b

Take(s, n) == SubSeq(s, 1, Min(n, Len(s)))

RECURSIVE SeqsUpTo(_, _)
SeqsUpTo(S, n) ==
    IF n = 0 THEN {<<>>}
    ELSE LET shorter == SeqsUpTo(S, n - 1)
         IN shorter \cup {Append(s, x) : s \in {t \in shorter : Len(t) = n - 1}, x \in S}

----------------------------------------------------------------------------
(* Configuration *)
Required == {"FEISHU_APP_ID", "FEISHU_APP_SECRET", "FEISHU_BASE_TOKEN",
             "FEISHU_TABLE_ID", "RSS_FEEDS"}

EnvVars == Required \cup {"GEMINI_API_KEY", "FEISHU_WEBHOOK_URL"}

\* all([...]) of main()
ConfigComplete(e) == Required \subseteq e

----------------------------------------------------------------------------
(* Texts *)
NoText == [src |-> "none", len |-> 0]

Text(src, n) == IF n = 0 THEN NoText ELSE [src |-> src, len |-> n]

\* an html fragment: plain characters of some origin, markup characters, and
\* whether the html parser rejects the markup (BeautifulSoup then raises)
Html(src, n, mk, rej) == [src |-> src, len |-> n, mk |-> mk, rej |-> rej]

NoHtml == Html("none", 0, 0, FALSE)

Truthy(html) == html.len + html.mk > 0

\* clean_html_simple: "" for a falsy input, else the text with the markup removed
clean_html_simple(html) ==
    IF ~Truthy(html) THEN NoText ELSE Text(html.src, html.len)

\* BeautifulSoup(html, "html.parser") raises on the input
CleanRaises(html) == Truthy(html) /\ html.rej

\* content_text[:100] + "..."
Truncation(text) ==
    [src |-> IF text.len = 0 THEN "none" ELSE text.src,
     len |-> Min(text.len, SummaryCap), ell |-> TRUE]

\* response.text.strip() of the AI backend
AiText(n) == [src |-> IF n = 0 THEN "none" ELSE "ai", len |-> n, ell |-> FALSE]

----------------------------------------------------------------------------
(* Feed entries and the per-entry pipeline of parse_feeds *)

\* a feed entry: content is <<>> when the entry has no content attribute
Entry(link, content, summary, description) ==
    [link |-> link, content |-> content, summary |-> summary,
     description |-> description]

\* the html the cascade of lines 235-238 hands to clean_html_simple
CascadeHtml(e) ==
    IF e.content # <<>> THEN e.content[1]
    ELSE IF Truthy(e.summary) THEN e.summary ELSE e.description

FeedText(e) == clean_html_simple(CascadeHtml(e))

EntryRaises(e) == CleanRaises(CascadeHtml(e))

\* (variant: the length of the feed text is not looked at)
NeedsScrapeAnyLength(text, link) == link # EmptyLink

\* line 241: the live page is fetched
NeedsScrape(text, link) == text.len < ScrapeBelow /\ link # EmptyLink

\* a page [ok, status, js, p, body]: ok is false when the request or the parse
\* raised (status 0: there is no response); js, p and body are the text
\* lengths of div#js_content, of the p tags and of the body, -1 when the
\* element is absent
Page(js, p, body) == [ok |-> TRUE, status |-> 200, js |-> js, p |-> p, body |-> body]

FailPage == [ok |-> FALSE, status |-> 0, js |-> -1, p |-> 0, body |-> -1]

\* the answer of a server that does not have the article: a 404 with an html
\* body; session.get returns it like any other response (the retries of
\* lines 40-43 are for 500, 502, 503 and 504 only)
ErrorPage(body) == [ok |-> TRUE, status |-> 404, js |-> -1, p |-> 0, body |-> body]

fetch_wechat_content(r) ==
    IF ~r.ok THEN NoText
    ELSE IF r.js >= 0 THEN Text("page_js", r.js)
    ELSE IF r.p < BodyBelow
         THEN (IF r.body >= 0 THEN Text("page_body", r.body) ELSE NoText)
         ELSE Text("page_p", r.p)

\* lines 241-245
ContentText(e, r) ==
    LET feedText == FeedText(e)
    IN IF NeedsScrape(feedText, e.link)
       THEN LET fetched == fetch_wechat_content(r)
            IN IF fetched.len > feedText.len THEN fetched ELSE feedText
       ELSE feedText

\* line 249
Publishes(text) == text.len > RichAbove

\* create_feishu_doc: create and write are the outcomes of the two requests,
\* "ok", "code" (a response whose code is not 0) or "exc" (the request or
\* its decoding raised); the result is "" or the document link
create_feishu_doc(content, create, write) ==
    IF content.len = 0 \/ content.len < DocMinLen THEN ""
    ELSE IF create # "ok" THEN ""
    ELSE IF write = "exc" THEN ""
    ELSE "docx"

DocCreateCalled(content) == ~(content.len = 0 \/ content.len < DocMinLen)

DocWriteCalled(content, create) == DocCreateCalled(content) /\ create = "ok"

\* summarize_with_gemini: ai is -1 (generate_content raised) or the length of
\* the stripped response
AiCalled(mdl, text) == mdl /\ text.len > 0

summarize_with_gemini(mdl, text, ai) ==
    IF ~AiCalled(mdl, text) THEN AiText(0)
    ELSE IF ai < 0 THEN AiText(0)
    ELSE AiText(ai)

\* (variant: the length of the text is not looked at)
WantsAiAnyLength(e_, text) == "GEMINI_API_KEY" \in e_

\* line 254
WantsAi(e_, text) == "GEMINI_API_KEY" \in e_ /\ text.len > RichAbove

\* (variant: lines 257-258 are lost, an empty answer is kept)
SummaryNoFallback(e_, mdl, text, ai) ==
    IF WantsAi(e_, text) THEN summarize_with_gemini(mdl, text, ai)
    ELSE Truncation(text)

\* lines 253-264
Summary(e_, mdl, text, ai) ==
    IF WantsAi(e_, text)
    THEN LET ai_summary == summarize_with_gemini(mdl, text, ai)
         IN IF ai_summary.len = 0 THEN Truncation(text) ELSE ai_summary
    ELSE Truncation(text)

\* lines 269-281: the record, with the feed and entry it came from
Record(e, link, summary, doc, f, i) ==
    [link |-> link, summary |-> summary, doc |-> doc, src |-> <<f, i>>]

\* the outcomes the environment chooses for one entry
Outcomes(pages) ==
    [scrape : {FailPage} \cup pages, create : {"ok", "code", "exc"},
     write : {"ok", "code", "exc"}, ai : {-1, 0, 20}]

\* which steps ran for entry e under outcome o, and which of them failed
StepsOf(e_, mdl, e, o) ==
    LET feedText == FeedText(e)
        text == ContentText(e, o.scrape)
        scraped == NeedsScrape(feedText, e.link)
        pub == Publishes(text)
        created == pub /\ DocCreateCalled(text)
        written == pub /\ DocWriteCalled(text, o.create)
        asked == WantsAi(e_, text) /\ AiCalled(mdl, text)
    IN [scrape |-> IF ~scraped THEN "none" ELSE IF ~o.scrape.ok THEN "fail" ELSE "ok",
        create |-> IF ~created THEN "none" ELSE o.create,
        write |-> IF ~written THEN "none" ELSE o.write,
        ai |-> IF ~asked THEN "none"
               ELSE IF o.ai < 0 THEN "exc" ELSE IF o.ai = 0 THEN "empty" ELSE "ok"]

FaultsOf(st) ==
    (IF st.scrape = "fail" THEN 1 ELSE 0) + (IF st.create \in {"code", "exc"} THEN 1 ELSE 0)
    + (IF st.write \in {"code", "exc"} THEN 1 ELSE 0)
    + (IF st.ai \in {"exc", "empty"} THEN 1 ELSE 0)

\* an outcome is canonical when the steps that did not run carry a fixed value
Canonical(st, o) ==
    /\ st.scrape = "none" => o.scrape = FailPage
    /\ st.create = "none" => o.create = "ok"
    /\ st.write = "none" => o.write = "ok"
    /\ st.ai = "none" => o.ai = 20

CallsOf(st) ==
    (IF st.scrape # "none" THEN {"scrape"} ELSE {})
    \cup (IF st.create # "none" THEN {"doc"} ELSE {})
    \cup (IF st.write # "none" THEN {"block"} ELSE {})
    \cup (IF st.ai # "none" THEN {"ai"} ELSE {})

----------------------------------------------------------------------------
(* The remote table *)

\* the Link field of a stored record: a plain string, a display-link
\* structure with or without its "link" key, or no Link field at all
LinkStr(l) == [t |-> "str", link |-> l]
LinkDict(l) == [t |-> "dict", link |-> l]
LinkDictNoUrl == [t |-> "dict_nolink", link |-> EmptyLink]
LinkMissing == [t |-> "missing", link |-> EmptyLink]

\* (variant: a display-link structure is not opened)
NormalizeLinkFlat(field) == IF field.t = "str" THEN field.link ELSE EmptyLink

\* lines 196-200: the dedup key of a stored record
NormalizeLink(field) ==
    IF field.t = "missing" THEN EmptyLink
    ELSE IF field.t \in {"dict", "dict_nolink"}
         THEN (IF field.t = "dict" THEN field.link ELSE EmptyLink)
         ELSE field.link

\* the list endpoint: the page that follows continuation token tok (0: none)
ListResponse(st, tok) ==
    [items |-> SubSeq(st, tok + 1, Min(tok + page_size, Len(st))),
     has_more |-> tok + page_size < Len(st),
     page_token |-> tok + page_size]

\* the answer of a list endpoint that never reports the last page: has_more
\* is set and a continuation token other than the one of the request comes
\* with it (two tokens take turns, so that the tokens stay in a finite set)
EndlessResponse(st, tok) ==
    [ListResponse(st, tok) EXCEPT
        !.has_more = TRUE,
        !.page_token = IF tok = page_size THEN 2 * page_size ELSE page_size]

\* line 190: the token the request carries (0: the parameter is left out)
RequestToken(tok) == IF tok # 0 THEN tok ELSE 0

\* the Link field batch_create sends for a record (line 271)
StoredLink(rec) == LinkDict(rec.link)

----------------------------------------------------------------------------
(* The notification sink: send_feishu_notification *)
Webhook(e_) == "FEISHU_WEBHOOK_URL" \in e_

SinkAfter(msg) == sink \cup {msg}

PostsAfter(msg) == IF Webhook(env) THEN posts \cup {msg} ELSE posts

CallsAfterNotify(c) == IF Webhook(env) THEN c \cup {"webhook"} ELSE c

Msg(kind, n) == [kind |-> kind, n |-> n]

----------------------------------------------------------------------------
(* What the remote ends can answer with *)
ShortEntry(l, rej) == Entry(l, <<>>, Html("summary", 5, 7, rej), NoHtml)

RichEntry(l) == Entry(l, <<Html("content", 200, 40, FALSE)>>, NoHtml, NoHtml)

\* entries with and without a link, and one whose markup the parser rejects
ShortLinks == {EmptyLink, 1}

ShortEntries == {ShortEntry(l, FALSE) : l \in ShortLinks} \cup {ShortEntry(1, TRUE)}

\* a document with more entries than one run takes from a feed
LongDoc == [i \in 1..(EntryCap + 1) |-> RichEntry(i)]

FeedDocs == SeqsUpTo(ShortEntries, MaxEntries) \cup {LongDoc}

ArticlePage == Page(300, 0, 300)

\* an article too short to be published or summarised by the model
NotePage == Page(30, 0, 30)

\* web.stable: a feed serves the same document whenever it is fetched again;
\* web.endless: the list endpoint answers every request with has_more
World(docs, pages, stable) ==
    [docs |-> docs, pages |-> pages, stable |-> stable, endless |-> FALSE]

EndlessWorld(docs, pages) == [World(docs, pages, FALSE) EXCEPT !.endless = TRUE]

\* the tables a full run starts from: records this program wrote earlier
SmallStores == {<<>>, <<LinkDict(1)>>, <<LinkDict(1), LinkDict(EmptyLink)>>}

\* the outcome recorded for the steps that did not run
NoOutcome == [scrape |-> FailPage, create |-> "ok", write |-> "ok", ai |-> 20]

NoItem == [f |-> 0, i |-> 0, link |-> EmptyLink, n0 |-> 0, what |-> "none",
           steps |-> [scrape |-> "none", create |-> "none", write |-> "none", ai |-> "none"],
           o |-> NoOutcome, text |-> NoText]

NoPrev == [persisted |-> FALSE, written |-> 0, fetched |-> {}, loaded |-> FALSE]

\* the state of a run that has not started, but for new_records and pc
Quiet ==
    /\ token = FALSE
    /\ page_token = 0
    /\ existing_links = {}
    /\ feed_i = 0
    /\ phase = "fetch"
    /\ feed = <<>>
    /\ entries = <<>>
    /\ entry_i = 0
    /\ batch_i = 0
    /\ calls = {}
    /\ sink = {}
    /\ posts = {}
    /\ listLog = <<>>
    /\ loadErr = FALSE
    /\ idx0 = {}
    /\ idxFeed = {}
    /\ feedStatus = [f \in 1..Len(feeds) |-> "pending"]
    /\ lastItem = NoItem
    /\ submissions = <<>>
    /\ faults = 0

Fresh == new_records = <<>> /\ Quiet

Init ==
    /\ env \in SUBSET EnvVars
    /\ model = ("GEMINI_API_KEY" \in env)
    /\ store \in SmallStores
    /\ web = World(FeedDocs, {ArticlePage}, FALSE)
    /\ feeds \in (IF "RSS_FEEDS" \in env THEN {[i \in 1..n |-> i] : n \in 0..MaxFeeds}
                  ELSE {<<>>})
    /\ feedDoc = [f \in 1..Len(feeds) |-> <<>>]
    /\ run = 1
    /\ prev = NoPrev
    /\ pc = "main"
    /\ Fresh

----------------------------------------------------------------------------
(* main(), lines 316-341 *)

\* lines 317-321
CheckConfig ==
    /\ pc = "main"
    /\ pc' = IF ConfigComplete(env) THEN "auth" ELSE "abort"
    /\ UNCHANGED <<env, model, token, store, web, page_token, existing_links, feeds,
                   feed_i, phase, feed, entries, entry_i, new_records, batch_i, run, calls,
                   sink, posts, listLog, loadErr, idx0, idxFeed, feedDoc, feedStatus,
                   lastItem, submissions, faults, prev>>

\* (variant: the except clause of lines 325-326 does not return)
AfterAuthIgnore(ok) == "index"

\* lines 322-326: where main goes after get_tenant_access_token
AfterAuth(ok) == IF ok THEN "index" ELSE "abort"

\* lines 322-326 and get_tenant_access_token, lines 59-71: ok is false when the
\* request, raise_for_status or the decoding of the response raised
Authenticate ==
    /\ pc = "auth"
    /\ \E ok \in BOOLEAN :
         /\ ~ok => faults < MaxFaults
         /\ faults' = IF ok THEN faults ELSE faults + 1
         /\ token' = ok
         /\ pc' = AfterAuth(ok)
         /\ sink' = IF ok THEN sink ELSE SinkAfter(Msg("auth", 0))
         /\ posts' = IF ok THEN posts ELSE PostsAfter(Msg("auth", 0))
         /\ calls' = IF ok THEN calls \cup {"auth"}
                     ELSE CallsAfterNotify(calls \cup {"auth"})
    /\ UNCHANGED <<env, model, store, web, page_token, existing_links, feeds,
                   feed_i, phase, feed, entries, entry_i, new_records, batch_i, run,
                   listLog, loadErr, idx0, idxFeed, feedDoc, feedStatus,
                   lastItem, submissions, prev>>

----------------------------------------------------------------------------
(* fetch_existing_records, lines 181-207 *)

\* lines 194-200: the links one page adds to the set
PageLinks(items) == {NormalizeLink(items[k]) : k \in DOMAIN items}

\* (variant: the loop never follows the continuation token)
HasMoreNever(resp) == FALSE

\* line 201
HasMore(resp) == resp.has_more

\* (variant: an error discards what the pages before it gave)
PartialIndexDropped(links) == {}

\* lines 193, 205-207: a break leaves the set as the pages before it made it,
\* and the function returns it
PartialIndex(links) == links

\* one pass of the while loop: out is "ok", or how the request failed:
\* "transport" and "malformed" raise, "code" is a response whose code is not 0
ListPage ==
    /\ pc = "index"
    /\ \E out \in {"ok", "transport", "code", "malformed"} :
         LET req == RequestToken(page_token)
             resp == IF web.endless THEN EndlessResponse(store, req)
                     ELSE ListResponse(store, req)
             more == out = "ok" /\ HasMore(resp)
         IN /\ out # "ok" => faults < MaxFaults
            /\ faults' = IF out = "ok" THEN faults ELSE faults + 1
            /\ calls' = calls \cup {"list"}
            /\ listLog' = IF Len(listLog) < MaxLog
                           THEN Append(listLog, [req |-> req, out |-> out,
                                                 has_more |-> resp.has_more,
                                                 page_token |-> resp.page_token])
                           ELSE listLog
            /\ existing_links' = IF out = "ok"
                                 THEN existing_links \cup PageLinks(resp.items)
                                 ELSE PartialIndex(existing_links)
            /\ loadErr' = (out # "ok")
            /\ page_token' = IF more THEN resp.page_token ELSE page_token
            /\ pc' = IF more THEN "index" ELSE "parse"
            /\ feed_i' = IF more THEN feed_i ELSE 1
            /\ idx0' = IF more THEN idx0 ELSE existing_links'
    /\ UNCHANGED <<env, model, token, store, web, feeds, phase, feed, entries, entry_i,
                   new_records, batch_i, run, sink, posts, idxFeed, feedDoc,
                   feedStatus, lastItem, submissions, prev>>

----------------------------------------------------------------------------
(* parse_feeds, lines 209-288 *)

\* (variant: the empty string is not kept in the set)
MarkSeenNamed(link, index) == IF link = EmptyLink THEN index ELSE index \cup {link}

\* line 230
MarkSeen(link, index) == index \cup {link}

\* (variant: the membership test of line 228 is lost)
IsNewAlways(link, index) == TRUE

\* line 228
IsNew(link, index) == link \notin index

\* (variant: one entry fewer is taken)
TakeEntriesShort(doc) == Take(doc, EntryCap - 1)

\* line 224
TakeEntries(doc) == Take(doc, EntryCap)

\* (variant: the error leaves the loop over feed_urls)
AfterFeedErrorStop(i) == Len(feeds) + 1

\* lines 283-286: the except clause ends the pass of the loop over feed_urls,
\* which takes the next feed
AfterFeedError(i) == i + 1

\* lines 219-224, and the except clause of lines 283-286 when the fetch raises
FetchFeed ==
    /\ pc = "parse"
    /\ phase = "fetch"
    /\ feed_i \in 1..Len(feeds)
    /\ \/ /\ faults < MaxFaults
          /\ faults' = faults + 1
          /\ calls' = CallsAfterNotify(calls \cup {"feed"})
          /\ sink' = SinkAfter(Msg("feed", feed_i))
          /\ posts' = PostsAfter(Msg("feed", feed_i))
          /\ feedStatus' = [feedStatus EXCEPT ![feed_i] = "fetchfail"]
          /\ feed_i' = AfterFeedError(feed_i)
          /\ UNCHANGED <<phase, feed, entries, entry_i, idxFeed, feedDoc>>
       \/ \E doc \in web.docs :
          /\ feedDoc[feed_i] # <<>> => doc = feedDoc[feed_i][1]
          /\ calls' = calls \cup {"feed"}
          /\ feed' = doc
          /\ entries' = TakeEntries(doc)
          /\ entry_i' = 1
          /\ phase' = "entries"
          /\ idxFeed' = existing_links
          /\ feedDoc' = IF web.stable THEN [feedDoc EXCEPT ![feed_i] = <<doc>>]
                         ELSE feedDoc
          /\ UNCHANGED <<faults, sink, posts, feedStatus, feed_i>>
    /\ UNCHANGED <<env, model, pc, token, store, web, page_token, existing_links,
                   feeds, new_records, batch_i, run, listLog, loadErr, idx0,
                   lastItem, submissions, prev>>

\* one pass of the inner loop, lines 226-281, and the except clause of lines
\* 283-286 when the pass raises
ProcessEntry ==
    /\ pc = "parse"
    /\ phase = "entries"
    /\ entry_i \in 1..Len(entries)
    /\ LET e == entries[entry_i]
           link == e.link
           item == [NoItem EXCEPT !.f = feed_i, !.i = entry_i, !.link = link,
                                  !.n0 = Len(new_records)]
       IN IF ~IsNew(link, existing_links)
          THEN /\ entry_i' = entry_i + 1
               /\ lastItem' = [item EXCEPT !.what = "skipped"]
               /\ UNCHANGED <<existing_links, new_records, calls, sink, posts,
                              feedStatus, feed_i, phase, faults>>
          ELSE /\ existing_links' = MarkSeen(link, existing_links)
               /\ IF EntryRaises(e)
                  THEN /\ lastItem' = [item EXCEPT !.what = "raised"]
                       /\ calls' = CallsAfterNotify(calls)
                       /\ sink' = SinkAfter(Msg("feed", feed_i))
                       /\ posts' = PostsAfter(Msg("feed", feed_i))
                       /\ feedStatus' = [feedStatus EXCEPT ![feed_i] = "itemfail"]
                       /\ feed_i' = AfterFeedError(feed_i)
                       /\ phase' = "fetch"
                       /\ UNCHANGED <<entry_i, new_records, faults>>
                  ELSE \E o \in Outcomes(web.pages) :
                       LET st == StepsOf(env, model, e, o)
                           text == ContentText(e, o.scrape)
                           doc_link == IF Publishes(text)
                                       THEN create_feishu_doc(text, o.create, o.write)
                                       ELSE ""
                           ai_summary == Summary(env, model, text, o.ai)
                       IN /\ Canonical(st, o)
                          /\ faults + FaultsOf(st) <= MaxFaults
                          /\ faults' = faults + FaultsOf(st)
                          /\ calls' = calls \cup CallsOf(st)
                          /\ new_records' = Append(new_records,
                                 Record(e, link, ai_summary, doc_link, feed_i, entry_i))
                          /\ lastItem' = [item EXCEPT !.what = "record", !.steps = st,
                                                       !.o = o, !.text = text]
                          /\ entry_i' = entry_i + 1
                          /\ UNCHANGED <<sink, posts, feedStatus, feed_i, phase>>
    /\ UNCHANGED <<env, model, pc, token, store, web, page_token, feeds, feed,
                   entries, batch_i, run, listLog, loadErr, idx0, idxFeed, feedDoc,
                   submissions, prev>>

\* the inner loop is exhausted: the outer loop takes the next feed
EndFeed ==
    /\ pc = "parse"
    /\ phase = "entries"
    /\ entry_i > Len(entries)
    /\ feedStatus' = [feedStatus EXCEPT ![feed_i] = "ok"]
    /\ feed_i' = feed_i + 1
    /\ phase' = "fetch"
    /\ UNCHANGED <<env, model, pc, token, store, web, page_token, existing_links,
                   feeds, feed, entries, entry_i, new_records, batch_i, run, calls,
                   sink, posts, listLog, loadErr, idx0, idxFeed, feedDoc, lastItem,
                   submissions, faults, prev>>

\* line 288 and main, lines 335-341
EndParse ==
    /\ pc = "parse"
    /\ phase = "fetch"
    /\ feed_i > Len(feeds)
    /\ pc' = IF new_records # <<>> THEN "batch" ELSE "done"
    /\ batch_i' = 0
    /\ UNCHANGED <<env, model, token, store, web, page_token, existing_links, feeds,
                   feed_i, phase, feed, entries, entry_i, new_records, run, calls, sink,
                   posts, listLog, loadErr, idx0, idxFeed, feedDoc, feedStatus,
                   lastItem, submissions, faults, prev>>

----------------------------------------------------------------------------
(* batch_create_records, lines 290-314 *)

\* (variant: the slice ends one record early)
BatchShort(records, i) == SubSeq(records, i + 1, Min(i + batch_size - 1, Len(records)))

\* line 299: records[i:i + batch_size]
Batch(records, i) == SubSeq(records, i + 1, Min(i + batch_size, Len(records)))

\* (variant: a failed chunk leaves the loop)
NextBatchStartBreak(i, out) == IF out = "ok" THEN i + batch_size ELSE Len(new_records)

\* line 298: the next i of range(0, len(records), batch_size), whatever the
\* outcome of the chunk (lines 305-314 only report)
NextBatchStart(i, out) == i + batch_size

\* one pass of the loop: out is "ok", "code" (a response whose code is not 0)
\* or "exc" (the request or its decoding raised)
SubmitChunk ==
    /\ pc = "batch"
    /\ batch_i < Len(new_records)
    /\ \E out \in {"ok", "code", "exc"} :
         LET batch == Batch(new_records, batch_i)
             msg == Msg("batch", Len(submissions) + 1)
         IN /\ out # "ok" => faults < MaxFaults
            /\ faults' = IF out = "ok" THEN faults ELSE faults + 1
            /\ submissions' = Append(submissions, [records |-> batch, out |-> out])
            /\ store' = IF out = "ok"
                        THEN store \o [k \in 1..Len(batch) |-> StoredLink(batch[k])]
                        ELSE store
            /\ calls' = IF out = "ok" THEN calls \cup {"batch"}
                        ELSE CallsAfterNotify(calls \cup {"batch"})
            /\ sink' = IF out = "ok" THEN sink ELSE SinkAfter(msg)
            /\ posts' = IF out = "ok" THEN posts ELSE PostsAfter(msg)
            /\ batch_i' = NextBatchStart(batch_i, out)
    /\ UNCHANGED <<env, model, pc, token, web, page_token, existing_links, feeds,
                   feed_i, phase, feed, entries, entry_i, new_records, run, listLog,
                   loadErr, idx0, idxFeed, feedDoc, feedStatus, lastItem, prev>>

\* the loop is exhausted (or line 291 returned): main prints "Job finished."
EndBatch ==
    /\ pc = "batch"
    /\ batch_i >= Len(new_records)
    /\ pc' = "done"
    /\ UNCHANGED <<env, model, token, store, web, page_token, existing_links, feeds,
                   feed_i, phase, feed, entries, entry_i, new_records, batch_i, run, calls,
                   sink, posts, listLog, loadErr, idx0, idxFeed, feedDoc, feedStatus,
                   lastItem, submissions, faults, prev>>

Next ==
    \/ CheckConfig
    \/ Authenticate
    \/ ListPage
    \/ FetchFeed
    \/ ProcessEntry
    \/ EndFeed
    \/ EndParse
    \/ SubmitChunk
    \/ EndBatch

Spec == Init /\ [][Next]_vars

----------------------------------------------------------------------------
(* The job run a second time: the table keeps what the first run wrote, and  *)
(* the feeds serve what they served (web.stable).                            *)

SecondRun ==
    /\ pc = "done"
    /\ run = 1
    /\ run' = 2
    /\ prev' = [persisted |-> \A k \in DOMAIN submissions : submissions[k].out = "ok",
                written |-> Len(new_records),
                fetched |-> {f \in DOMAIN feedStatus : feedStatus[f] # "fetchfail"},
                loaded |-> ~loadErr]
    /\ pc' = "main"
    /\ token' = FALSE
    /\ page_token' = 0
    /\ existing_links' = {}
    /\ feed_i' = 0
    /\ phase' = "fetch"
    /\ feed' = <<>>
    /\ entries' = <<>>
    /\ entry_i' = 0
    /\ new_records' = <<>>
    /\ batch_i' = 0
    /\ calls' = {}
    /\ sink' = {}
    /\ posts' = {}
    /\ listLog' = <<>>
    /\ loadErr' = FALSE
    /\ idx0' = {}
    /\ idxFeed' = {}
    /\ feedStatus' = [f \in 1..Len(feeds) |-> "pending"]
    /\ lastItem' = NoItem
    /\ submissions' = <<>>
    /\ faults' = 0
    /\ UNCHANGED <<env, model, store, web, feeds, feedDoc>>

StableDocs == SeqsUpTo(ShortEntries, MaxStableEntries)

InitTwice ==
    /\ env = EnvVars
    /\ model = TRUE
    /\ store \in SmallStores
    /\ web = World(StableDocs, {NotePage}, TRUE)
    /\ feeds = <<1, 2>>
    /\ feedDoc = [f \in 1..Len(feeds) |-> <<>>]
    /\ run = 1
    /\ prev = NoPrev
    /\ pc = "main"
    /\ Fresh

NextTwice == Next \/ SecondRun

SpecTwice == InitTwice /\ [][NextTwice]_vars

----------------------------------------------------------------------------
(* The run as a process that keeps taking its next step, against a list      *)
(* endpoint that may never report its last page.                             *)

InitLive ==
    /\ env = EnvVars
    /\ model = TRUE
    /\ store \in SmallStores
    /\ web \in {World(FeedDocs, {ArticlePage}, FALSE), EndlessWorld(FeedDocs, {ArticlePage})}
    /\ feeds \in {[i \in 1..n |-> i] : n \in 0..MaxFeeds}
    /\ feedDoc = [f \in 1..Len(feeds) |-> <<>>]
    /\ run = 1
    /\ prev = NoPrev
    /\ pc = "main"
    /\ Fresh

\* main is one sequential thread: a step that can be taken is taken
SpecLive == InitLive /\ [][Next]_vars /\ WF_vars(Next)

----------------------------------------------------------------------------
(* batch_create_records on its own, for every number of records *)

\* n records with distinct links, as parse_feeds assembles them
RecordList(n) ==
    [i \in 1..n |-> Record(RichEntry(i), i, Truncation(Text("content", 200)), "", 1, i)]

InitBatch ==
    /\ env \in {EnvVars, EnvVars \ {"FEISHU_WEBHOOK_URL"}}
    /\ model = TRUE
    /\ store = <<>>
    /\ web = World({}, {}, FALSE)
    /\ feeds = <<>>
    /\ feedDoc = <<>>
    /\ run = 1
    /\ prev = NoPrev
    /\ pc = "batch"
    /\ new_records \in {RecordList(n) : n \in 0..MaxBatchInput}
    /\ Quiet

NextBatch == SubmitChunk \/ EndBatch

SpecBatch == InitBatch /\ [][NextBatch]_vars

----------------------------------------------------------------------------
(* fetch_existing_records on its own, for tables of several pages *)

\* the Link field of the i-th record of a table: the four representations
\* take turns, starting from shift
TableField(i, shift) ==
    LET k == (i + shift) % 4
    IN IF k = 0 THEN LinkStr(i)
       ELSE IF k = 1 THEN LinkDict(i)
       ELSE IF k = 2 THEN LinkDictNoUrl
       ELSE LinkMissing

Table(n, shift) == [i \in 1..n |-> TableField(i, shift)]

InitIndex ==
    /\ env = EnvVars
    /\ model = TRUE
    /\ store \in {Table(n, shift) : n \in 0..MaxTable, shift \in 0..3}
    /\ web = World({}, {}, FALSE)
    /\ feeds = <<>>
    /\ feedDoc = <<>>
    /\ run = 1
    /\ prev = NoPrev
    /\ pc = "index"
    /\ new_records = <<>>
    /\ token = TRUE
    /\ page_token = 0
    /\ existing_links = {}
    /\ feed_i = 0
    /\ phase = "fetch"
    /\ feed = <<>>
    /\ entries = <<>>
    /\ entry_i = 0
    /\ batch_i = 0
    /\ calls = {"auth"}
    /\ sink = {}
    /\ posts = {}
    /\ listLog = <<>>
    /\ loadErr = FALSE
    /\ idx0 = {}
    /\ idxFeed = {}
    /\ feedStatus = <<>>
    /\ lastItem = NoItem
    /\ submissions = <<>>
    /\ faults = 0

NextIndex == ListPage

SpecIndex == InitIndex /\ [][NextIndex]_vars

----------------------------------------------------------------------------
(* parse_feeds on its own, over one feed of one entry of every shape *)

\* the lengths of a feed field's text: around the thresholds of lines 241, 249
FieldLens == {0, 30, RichAbove, RichAbove + 1, ScrapeBelow - 1, ScrapeBelow, 200}

\* entry.content: absent, or one block whose value has n characters of text
ItemContents == {<<>>} \cup {<<Html("content", n, 40, FALSE)>> : n \in FieldLens}

\* entry.summary: absent, markup without text, a short and a long text
ItemSummaries == {NoHtml, Html("summary", 0, 7, FALSE), Html("summary", 30, 7, FALSE),
                  Html("summary", 150, 7, FALSE)}

\* entry.description: absent, or 200 characters of text in markup
ItemDescriptions == {NoHtml, Html("description", 200, 12, FALSE)}

ItemEntries ==
    {Entry(l, c, sm, d) : l \in {EmptyLink, 1}, c \in ItemContents,
                          sm \in ItemSummaries, d \in ItemDescriptions}

\* the article pages: with the content container, with paragraphs only, with
\* a body only, without a body, with a container shorter than a feed text,
\* and the page of a server that answers 404
ItemPages == {ArticlePage, Page(-1, 60, 500), Page(-1, 10, 40), Page(-1, 0, -1),
              Page(20, 0, 20), ErrorPage(120)}

InitItem ==
    /\ env \in {EnvVars, EnvVars \ {"GEMINI_API_KEY"}}
    /\ model \in {m \in BOOLEAN : m => "GEMINI_API_KEY" \in env}
    /\ store = <<>>
    /\ web = World({<<e>> : e \in ItemEntries}, ItemPages, FALSE)
    /\ feeds = <<1>>
    /\ feedDoc = <<<<>>>>
    /\ run = 1
    /\ prev = NoPrev
    /\ pc = "parse"
    /\ new_records = <<>>
    /\ token = TRUE
    /\ page_token = 0
    /\ existing_links = {}
    /\ feed_i = 1
    /\ phase = "fetch"
    /\ feed = <<>>
    /\ entries = <<>>
    /\ entry_i = 0
    /\ batch_i = 0
    /\ calls = {"auth", "list"}
    /\ sink = {}
    /\ posts = {}
    /\ listLog = <<>>
    /\ loadErr = FALSE
    /\ idx0 = {}
    /\ idxFeed = {}
    /\ feedStatus = <<"pending">>
    /\ lastItem = NoItem
    /\ submissions = <<>>
    /\ faults = 0

NextItem == FetchFeed \/ ProcessEntry \/ EndFeed \/ EndParse

SpecItem == InitItem /\ [][NextItem]_vars

----------------------------------------------------------------------------
(* Properties *)

\* the records that entry i of feed f produced
RecordsOf(f, i) == {k \in DOMAIN new_records : new_records[k].src = <<f, i>>}

RecordsOfFeed(f) == {k \in DOMAIN new_records : new_records[k].src[1] = f}

SameFetches ==
    /\ \A f \in DOMAIN feedStatus :
         feedStatus[f] # "pending" => ((feedStatus[f] # "fetchfail") <=> (f \in prev.fetched))
    /\ (pc = "parse" /\ phase = "entries") => feed_i \in prev.fetched

FeedEnded == pc = "parse" /\ phase = "entries" /\ entry_i > Len(entries)

\* entry i of the parsed document is not in the dedup set when it is reached
NewAt(i) == feed[i].link \notin (idxFeed \cup {feed[j].link : j \in 1..(i - 1)})

ParseOver == pc \in {"batch", "done"} \/ (pc = "parse" /\ feed_i > Len(feeds))

PageSources == {"page_js", "page_p", "page_body"}

Ceil(n, d) == (n + d - 1) \div d

\* the payloads of the submission calls, one after the other
RECURSIVE Payloads(_)
Payloads(subs) ==
    IF subs = <<>> THEN <<>>
    ELSE Payloads(SubSeq(subs, 1, Len(subs) - 1)) \o subs[Len(subs)].records

\* the Link fields of the chunks the table accepted, one after the other
RECURSIVE Accepted(_)
Accepted(subs) ==
    IF subs = <<>> THEN <<>>
    ELSE LET last == subs[Len(subs)]
         IN Accepted(SubSeq(subs, 1, Len(subs) - 1))
            \o (IF last.out = "ok"
                THEN [k \in 1..Len(last.records) |-> LinkDict(last.records[k].link)]
                ELSE <<>>)

\* C6: batch_create_records issues ceil(N/100) submission calls for N
\* records, none of more than 100 records, and the payloads in the order of
\* the calls make up the input list.
C6_Chunking ==
    /\ \A k \in DOMAIN submissions : Len(submissions[k].records) \in 1..batch_size
    /\ pc = "batch" => Payloads(submissions) = Take(new_records, batch_i)
    /\ pc = "done" =>
         /\ Len(submissions) = Ceil(Len(new_records), batch_size)
         /\ Payloads(submissions) = new_records

\* 201 records went out in three calls
C6_Witness ==
    /\ pc = "done"
    /\ Len(new_records) = 2 * batch_size + 1
    /\ Len(submissions) = 3
    /\ Len(submissions[3].records) = 1

\* C7: a chunk whose submission fails is reported to the sink, every chunk is
\* submitted once whatever became of the chunks before it, and the table
\* keeps what the accepted chunks wrote.
C7_ChunkFailureIsolated ==
    /\ \A k \in DOMAIN submissions :
         submissions[k].out # "ok" => Msg("batch", k) \in sink
    /\ pc = "done" =>
         /\ Len(submissions) = Ceil(Len(new_records), batch_size)
         /\ \A c \in DOMAIN submissions :
              submissions[c].records
                 = SubSeq(new_records, (c - 1) * batch_size + 1,
                          Min(c * batch_size, Len(new_records)))
    /\ store = Accepted(submissions)

\* the first of three chunks failed and the last was accepted
C7_Witness ==
    /\ pc = "done"
    /\ Len(submissions) = 3
    /\ submissions[1].out # "ok"
    /\ submissions[3].out = "ok"
    /\ Len(store) = batch_size + 1

\* C8: when the access token cannot be obtained the run notifies and stops,
\* and no request other than the token request and the notification is issued.
C8_AuthFailureFatal ==
    ("auth" \in calls /\ ~token) =>
        /\ pc = "abort"
        /\ Msg("auth", 0) \in sink
        /\ calls \subseteq {"auth", "webhook"}
        /\ listLog = <<>>
        /\ new_records = <<>>
        /\ submissions = <<>>

\* the token request failed
C8_Witness ==
    /\ pc = "abort"
    /\ "auth" \in calls
    /\ Msg("auth", 0) \in posts

\* C9: with a required configuration value absent the run stops before any
\* request to the table, the feeds or the AI backend, and the stop is
\* reported through the sink exactly when the sink's endpoint is configured.
C9_ConfigAbortReported ==
    (~ConfigComplete(env) /\ pc # "main") =>
        /\ pc = "abort"
        /\ calls \subseteq {"webhook"}
        /\ Webhook(env) => (sink # {} /\ posts # {})
        /\ ~Webhook(env) => posts = {}

\* the dedup key the claim gives a stored Link field
DedupLink(field) ==
    IF field.t = "str" \/ field.t = "dict" THEN field.link ELSE EmptyLink

\* C10: when no page request fails, the first request carries no token, each
\* later one carries the token of the page before, the loop ends at the first
\* page without has_more, and the result is the set of the dedup links of all
\* records.
C10_IndexLoad ==
    /\ \A k \in DOMAIN listLog :
         /\ k = 1 => listLog[k].req = 0
         /\ k > 1 => (listLog[k].req = listLog[k - 1].page_token
                      /\ listLog[k - 1].has_more /\ listLog[k - 1].out = "ok")
    /\ (pc = "parse" /\ ~loadErr) =>
         /\ listLog # <<>>
         /\ ~listLog[Len(listLog)].has_more
         /\ existing_links = {DedupLink(store[i]) : i \in DOMAIN store}

\* a table of three pages has been read
C10_Witness ==
    /\ pc = "parse"
    /\ ~loadErr
    /\ Len(listLog) = 3
    /\ Cardinality(existing_links) > page_size

\* the links of the records on the first n pages of the table
LinksOfPages(n) ==
    {NormalizeLink(store[i]) : i \in 1..Min(n * page_size, Len(store))}

LastEntry == entries[lastItem.i]

LastRecord == new_records[Len(new_records)]

\* the plain text of a feed field
PlainOf(html) == IF html.len = 0 THEN NoText ELSE [src |-> html.src, len |-> html.len]

\* the sources of the cascade in the order of the claim: the structured
\* content block, the summary, the description
CascadeSources(e) ==
    (IF e.content # <<>> THEN <<e.content[1]>> ELSE <<>>) \o <<e.summary, e.description>>

\* the text of the first source that yields a non-empty text, "" if none does
RECURSIVE FirstNonEmpty(_)
FirstNonEmpty(srcs) ==
    IF srcs = <<>> THEN NoText
    ELSE IF srcs[1].len > 0 THEN PlainOf(srcs[1])
    ELSE FirstNonEmpty(Tail(srcs))

\* C12: the feed-derived text of an item is the text of the first of content
\* block, summary and description that yields a non-empty text; an item whose
\* content block is present but empty gets the text of its summary.
C12_CascadeFirstNonEmpty ==
    (lastItem.what = "record" /\ lastItem.steps.scrape = "none") =>
        lastItem.text = FirstNonEmpty(CascadeSources(LastEntry))

\* the entry has a description of 200 characters and no other content field
OnlyDescription(e) ==
    /\ e.content = <<>>
    /\ e.summary = NoHtml
    /\ e.description.len = 200

\* none of the feed fields of the entry holds text
NoUsableFields(e) ==
    \A k \in DOMAIN CascadeSources(e) : CascadeSources(e)[k].len = 0

\* C13: an item with nothing but a description of 200 characters keeps that
\* description without its markup and is not scraped; an item without usable
\* feed fields, with a link whose page is reachable, gets the text of the
\* page; a page is requested only for a feed text shorter than 100 characters
\* and a non-empty link.
C13_CascadeCorrect ==
    lastItem.what = "record" =>
        /\ OnlyDescription(LastEntry) =>
              /\ lastItem.text = [src |-> "description", len |-> 200]
              /\ lastItem.steps.scrape = "none"
        /\ (NoUsableFields(LastEntry) /\ lastItem.link # EmptyLink
              /\ lastItem.o.scrape.ok /\ lastItem.o.scrape.status = 200) =>
              /\ lastItem.steps.scrape = "ok"
              /\ lastItem.text = fetch_wechat_content(lastItem.o.scrape)
        /\ lastItem.steps.scrape # "none" =>
              /\ lastItem.link # EmptyLink
              /\ FeedText(LastEntry).len < ScrapeBelow

\* an item without feed text got the paragraphs of its page
C13_Witness ==
    /\ lastItem.what = "record"
    /\ NoUsableFields(LastEntry)
    /\ lastItem.steps.scrape = "ok"
    /\ lastItem.text = [src |-> "page_p", len |-> 60]
    /\ "scrape" \in calls

\* the page request of the item processed last failed: it raised, or the
\* response is not a 2xx
ScrapeFailed ==
    /\ lastItem.steps.scrape # "none"
    /\ ~lastItem.o.scrape.ok \/ lastItem.o.scrape.status \notin 200..299

\* C14: an item whose page request fails (network error, response that is
\* not a 2xx, parse failure) yields its record with exactly the text the feed
\* gave it.
C14_ScrapeFailureKeepsText ==
    (lastItem.what = "record" /\ ScrapeFailed) =>
        /\ lastItem.text = FeedText(LastEntry)
        /\ LastRecord.src = <<lastItem.f, lastItem.i>>

\* the first 100 characters of a text, followed by the ellipsis marker
CutWithEllipsis(text) ==
    [src |-> IF text.len = 0 THEN "none" ELSE text.src,
     len |-> IF text.len > 100 THEN 100 ELSE text.len,
     ell |-> TRUE]

\* the AI path is skipped for the item processed last: no backend, or a text
\* of at most 50 characters
AiSkipped == "GEMINI_API_KEY" \notin env \/ ~model \/ lastItem.text.len <= 50

\* the backend raised or answered with nothing
AiFailed == lastItem.steps.ai \in {"exc", "empty"}

\* C15: whenever the AI path is skipped or fails, the item still yields its
\* record, and the record's summary is the truncation of the item's text, a
\* function of the text alone.
C15_FallbackDeterministic ==
    (lastItem.what = "record" /\ (AiSkipped \/ AiFailed)) =>
        /\ Len(new_records) = lastItem.n0 + 1
        /\ LastRecord.summary = CutWithEllipsis(lastItem.text)
        /\ AiSkipped => "ai" \notin calls

\* the backend answered a long text with nothing
C15_Witness ==
    /\ lastItem.what = "record"
    /\ lastItem.steps.ai = "empty"
    /\ lastItem.text.len = 200
    /\ LastRecord.summary = [src |-> "content", len |-> 100, ell |-> TRUE]

\* C16: once the document of an item has been created, the item's record
\* carries the document link, whatever became of the write of its content
\* (a code that is not 0, a transport error, a malformed response).
C16_DocLinkSurvivesWrite ==
    (lastItem.what = "record" /\ lastItem.steps.create = "ok") =>
        LastRecord.doc # ""

\* C17: every record parse_feeds has assembled has a non-empty link.
C17_LinkNonEmpty ==
    \A k \in DOMAIN new_records : new_records[k].link # EmptyLink

\* the records of the run that carry the empty link
LinklessRecords == {k \in DOMAIN new_records : new_records[k].link = EmptyLink}

\* the stored record has no Link field, or one with an empty url
StoredWithoutUrl(field) ==
    field.t \in {"missing", "dict_nolink"} \/ field.link = EmptyLink

\* C18: an item without a link puts the empty string into the dedup set when
\* it is discovered; at most one such item of a run yields a record, and none
\* does when the loaded index holds the empty string, which it does whenever
\* the loader read a stored record without a url.
C18_LinklessDedup ==
    /\ Cardinality(LinklessRecords) <= 1
    /\ EmptyLink \in idx0 => LinklessRecords = {}
    /\ (lastItem.what \in {"record", "raised"} /\ lastItem.link = EmptyLink) =>
          EmptyLink \in existing_links
    /\ (pc = "parse" /\ ~loadErr /\ \E i \in DOMAIN store : StoredWithoutUrl(store[i])) =>
          EmptyLink \in idx0

\* two feeds carried an item without a link: the second one was skipped
C18_Witness ==
    /\ pc = "done"
    /\ EmptyLink \notin idx0
    /\ Cardinality(LinklessRecords) = 1
    /\ lastItem.what = "skipped"
    /\ lastItem.link = EmptyLink
    /\ lastItem.f = 2

\* C19: when parse_feeds has returned, the links it put into the dedup set
\* are the links of the records it returned.
C19_SeenIffRecorded ==
    pc \in {"batch", "done"} =>
        existing_links \ idx0 = {new_records[k].link : k \in DOMAIN new_records}

\* C20: every run ends, in the fatal abort or at the end of the job, whatever
\* the list endpoint answers.
C20_Terminates == <>(pc \in {"done", "abort"})

====
